---- MODULE Spec2Model ----
(***************************************************************************)
(* A model of the hecks rules engine (hecks_engines/hecks.py): the Game    *)
(* class with its board, move list and color to move, the vertex parser,   *)
(* the adjacency function, the liberty search and the legality checks.     *)
(*                                                                         *)
(* A vertex text is a sequence of one-character strings ("a1" is           *)
(* <<"a", "1">>), a vertex_tuple is a pair <<row, column>>.  The board is  *)
(* a defaultdict whose keys are of two kinds in the source: vertex_tuples  *)
(* (everything that reads the board, and is_not_suicide) and vertex texts  *)
(* (the assignment in play).  It is modelled as a record of two lookup     *)
(* functions, board.tup and board.str, each giving what board[key]         *)
(* evaluates to (None for a key that was never set).                       *)
(***************************************************************************)
EXTENDS Integers, Sequences, FiniteSets

\* ------------------------------------------------------------- bounds

\* Most moves a game of specification Spec accepts.
MaxMoves == 3

\* Most stones a scenario places on the board before its calls.
MaxStones == 6

\* Most characters of a text handed to to_vertex_tuple on its own.
MaxTextLen == 3

\* Most moves a game that shares the caches with other games accepts.
MaxCacheMoves == 1

\* The engine's move list holds the first MaxEngineMoves vertices that
\* prepare_moves enumerates.
MaxEngineMoves == 3

\* ---------------------------------------------------------- constants

RED == "R"

BLUE == "B"

None == "None"

HTP_PASS == <<"p", "a", "s", "s">>

HTP_RESIGN == <<"r", "e", "s", "i", "g", "n">>

Colors == {RED, BLUE}

\* Move = namedtuple("Move", ["color", "vertex"])
Move(color, vertex) == [color |-> color, vertex |-> vertex]

\* ---------------------------------------------------------- characters

LowerCase ==
    <<"a", "b", "c", "d", "e", "f", "g", "h", "i", "j", "k", "l", "m",
      "n", "o", "p", "q", "r", "s", "t", "u", "v", "w", "x", "y", "z">>

UpperCase ==
    <<"A", "B", "C", "D", "E", "F", "G", "H", "I", "J", "K", "L", "M",
      "N", "O", "P", "Q", "R", "S", "T", "U", "V", "W", "X", "Y", "Z">>

Digits == <<"0", "1", "2", "3", "4", "5", "6", "7", "8", "9">>

IndexOf(seq, ch) == CHOOSE i \in 1..Len(seq) : seq[i] = ch

InSeq(seq, ch) == \E i \in 1..Len(seq) : seq[i] = ch

Range(seq) == {seq[i] : i \in 1..Len(seq)}

\* Two characters outside ASCII, each written as one token: the capital I
\* with a dot above, a letter, and the combining dot above.  The lower case
\* of the first is "i" followed by the second.
CAPITAL_I_DOT == "U+0130"

COMBINING_DOT == "U+0307"

\* The characters str.isalpha() is true of.
Letters == Range(LowerCase) \cup Range(UpperCase) \cup {CAPITAL_I_DOT}

\* str.lower() of the upper-case letters.
LowerOf == [ch \in Range(UpperCase) |-> LowerCase[IndexOf(UpperCase, ch)]]

\* ord() of the letters, the digits, "-" and the combining dot.
OrdOf ==
    [ch \in Letters \cup Range(Digits) \cup {"-", COMBINING_DOT} |->
        IF InSeq(LowerCase, ch) THEN 96 + IndexOf(LowerCase, ch)
        ELSE IF InSeq(UpperCase, ch) THEN 64 + IndexOf(UpperCase, ch)
        ELSE IF InSeq(Digits, ch) THEN 47 + IndexOf(Digits, ch)
        ELSE IF ch = CAPITAL_I_DOT THEN 304
        ELSE IF ch = COMBINING_DOT THEN 775
        ELSE 45]

\* str.isalpha() of one character
isalpha(ch) == ch \in Letters

\* str.isdigit() of one character
isdigit_ch(ch) == ch \in Range(Digits)

\* str.lower() of one character: a text, of one character but for the
\* capital I with a dot above.
lower(ch) ==
    IF ch \in DOMAIN LowerOf THEN <<LowerOf[ch]>>
    ELSE IF ch = CAPITAL_I_DOT THEN <<"i", COMBINING_DOT>>
    ELSE <<ch>>

\* ord() of one character (0 stands for a character not in OrdOf)
ord(ch) == IF ch \in DOMAIN OrdOf THEN OrdOf[ch] ELSE 0

\* str.isdigit() of a text: not empty and every character a digit
isdigit(text) == Len(text) > 0 /\ \A i \in 1..Len(text) : isdigit_ch(text[i])

\* int() of a text of digits
RECURSIVE int(_)
int(text) ==
    IF Len(text) = 0 THEN 0
    ELSE 10 * int(SubSeq(text, 1, Len(text) - 1)) + (ord(text[Len(text)]) - 48)

\* ---------------------------------------------------- coordinate system

\* The outcome of a call: it raised error (ValueError, TypeError) or it
\* returned value.
ValueError == "ValueError"

TypeError == "TypeError"

Raise == [raised |-> TRUE, value |-> 0, error |-> ValueError]

RaiseTypeError == [raised |-> TRUE, value |-> 0, error |-> TypeError]

Return(v) == [raised |-> FALSE, value |-> v, error |-> None]

\* s <= t for two texts, as Python compares strings: by the first character
\* that differs, a proper prefix being the smaller.
RECURSIVE str_le(_, _)
str_le(s, t) ==
    IF Len(s) = 0 THEN TRUE
    ELSE IF Len(t) = 0 THEN FALSE
    ELSE IF ord(s[1]) # ord(t[1]) THEN ord(s[1]) < ord(t[1])
    ELSE str_le(Tail(s), Tail(t))

\* ord() of a text: TypeError unless the text is one character.
ord_of(text) == IF Len(text) = 1 THEN Return(ord(text[1])) ELSE RaiseTypeError

\* Game.length_of_row for an integer row.
length_of_row(row) ==
    IF 1 <= row /\ row <= 5 THEN Return(9 + 2 * row)
    ELSE IF 6 <= row /\ row <= 10 THEN Return(9 + 2 * (11 - row))
    ELSE Raise

\* Game.length_of_row for a one-character text: a letter is first turned
\* into its row number, a digit goes through int().
length_of_row_str(row) ==
    IF isalpha(row)
    THEN IF ord_of(lower(row)).raised THEN RaiseTypeError
         ELSE length_of_row(ord_of(lower(row)).value - ord("a") + 1)
    ELSE IF isdigit_ch(row) THEN length_of_row(int(<<row>>))
    ELSE Raise

\* Game.to_vertex_tuple
to_vertex_tuple(vertex) ==
    IF 2 <= Len(vertex) /\ Len(vertex) <= 3
    THEN LET row == vertex[1]
             col == SubSeq(vertex, 2, Len(vertex))
         IN  IF isalpha(row) /\ str_le(<<"a">>, lower(row))
                /\ str_le(lower(row), <<"j">>) /\ isdigit(col)
             THEN LET row_ord == ord_of(lower(row))
                      row_val == row_ord.value - ord("a") + 1
                      max_col == length_of_row_str(row)
                  IN  IF row_ord.raised THEN row_ord
                      ELSE IF max_col.raised THEN max_col
                      ELSE IF 1 <= int(col) /\ int(col) <= max_col.value
                      THEN Return(<<row_val, int(col)>>)
                      ELSE Raise
             ELSE Raise
    ELSE Raise

\* The valid board coordinates: rows 1..10, columns 1..length_of_row(row).
Coords == {c \in (1..10) \X (1..19) : c[2] <= length_of_row(c[1]).value}

\* ----------------------------------------------------------- adjacency

\* get_neighbors whose odd columns of rows 1 to 4 look straight up, as the
\* odd columns of row 5 do.
get_neighbors_straight_up(vertex_tuple) ==
    LET y == vertex_tuple[1]
        x == vertex_tuple[2]
        max_x == length_of_row(y).value
        left == IF x > 1 THEN <<(<<y, x - 1>>)>> ELSE <<>>
        right == IF x < max_x THEN <<(<<y, x + 1>>)>> ELSE <<>>
        diagonal ==
            IF y <= 5
            THEN IF y >= 2 /\ x % 2 = 0 THEN <<(<<y - 1, x - 1>>)>>
                 ELSE IF x % 2 = 1 THEN <<(<<y + 1, x>>)>>
                 ELSE <<>>
            ELSE IF y <= 9 /\ x % 2 = 0 THEN <<(<<y + 1, x - 1>>)>>
                 ELSE IF x % 2 = 1
                      THEN IF y > 6 THEN <<(<<y - 1, x + 1>>)>>
                           ELSE <<(<<y - 1, x>>)>>
                 ELSE <<>>
    IN  left \o right \o diagonal

\* Game.get_neighbors: left, right, then the diagonal.
get_neighbors(vertex_tuple) ==
    LET y == vertex_tuple[1]
        x == vertex_tuple[2]
        max_x == length_of_row(y).value
        left == IF x > 1 THEN <<(<<y, x - 1>>)>> ELSE <<>>
        right == IF x < max_x THEN <<(<<y, x + 1>>)>> ELSE <<>>
        diag ==
            IF y <= 5
            THEN IF y >= 2 /\ x % 2 = 0 THEN <<(<<y - 1, x - 1>>)>>
                 ELSE IF x % 2 = 1
                      THEN IF y < 5 THEN <<(<<y + 1, x + 1>>)>>
                           ELSE <<(<<y + 1, x>>)>>
                      ELSE <<>>
            ELSE IF y <= 9 /\ x % 2 = 0 THEN <<(<<y + 1, x - 1>>)>>
                 ELSE IF x % 2 = 1
                      THEN IF y > 6 THEN <<(<<y - 1, x + 1>>)>>
                           ELSE <<(<<y - 1, x>>)>>
                      ELSE <<>>
    IN  left \o right \o diag

\* ------------------------------------------------ board and liberty search

\* The vertex texts the calls are made with: a corner point, a point in
\* upper case, the two sentinels, a text that does not parse (row a has
\* 11 columns) and a text whose first letter has a lower case of two
\* characters.
Vertices ==
    {<<"a", "1">>, <<"A", "2">>, HTP_PASS, HTP_RESIGN, <<"a", "1", "2">>,
     <<CAPITAL_I_DOT, "1">>}

Moves == {Move(color, vertex) : color \in Colors, vertex \in Vertices}

\* The six points of the hexagon in the corner of the board and one point
\* next to it: the points the calls and the scenarios write.  Every vertex
\* of Vertices that parses denotes one of them.
Region ==
    {<<1, 1>>, <<1, 2>>, <<1, 3>>, <<1, 4>>, <<2, 2>>, <<2, 3>>, <<2, 4>>}

\* collections.defaultdict(lambda: None) before any key is set.  The two
\* functions hold the keys that are ever set; at() reads any key.
EmptyBoard ==
    [tup |-> [c \in Region |-> None], str |-> [v \in Vertices |-> None]]

\* board[vertex_tuple]: None for a key never set.
at(board, vertex_tuple) ==
    IF vertex_tuple \in DOMAIN board.tup THEN board.tup[vertex_tuple] ELSE None

\* bfs with the test of line 68 lost: every stone next to the group is
\* enqueued, whatever its color.
RECURSIVE bfs_any_color(_, _, _, _, _)
bfs_any_color(board, color, queue, expanded, liberties) ==
    IF Len(queue) = 0 THEN liberties
    ELSE LET visiting == Head(queue)
             rest == Tail(queue)
         IN  IF visiting \in expanded
             THEN bfs_any_color(board, color, rest, expanded, liberties)
             ELSE LET nbrs == get_neighbors(visiting)
                      free == {i \in 1..Len(nbrs) : at(board, nbrs[i]) = None}
                      same == SelectSeq(nbrs, LAMBDA n : at(board, n) # None)
                  IN  bfs_any_color(board, color, rest \o same,
                                    expanded \cup {visiting},
                                    liberties + Cardinality(free))

\* bfs that counts the empty neighbors of the first point of the queue and
\* enqueues nothing.
bfs_first_only(board, color, queue, expanded, liberties) ==
    IF Len(queue) = 0 THEN liberties
    ELSE LET nbrs == get_neighbors(Head(queue))
             free == {i \in 1..Len(nbrs) : at(board, nbrs[i]) = None}
         IN  liberties + Cardinality(free)

\* The deque of count_liberties_of is worked off from the left: one
\* iteration of the while loop per call.
RECURSIVE bfs(_, _, _, _, _)
bfs(board, color, queue, expanded, liberties) ==
    IF Len(queue) = 0 THEN liberties
    ELSE LET visiting == Head(queue)
             rest == Tail(queue)
         IN  IF visiting \in expanded
             THEN bfs(board, color, rest, expanded, liberties)
             ELSE LET nbrs == get_neighbors(visiting)
                      free == {i \in 1..Len(nbrs) : at(board, nbrs[i]) = None}
                      same == SelectSeq(nbrs, LAMBDA n : at(board, n) = color)
                  IN  bfs(board, color, rest \o same,
                          expanded \cup {visiting},
                          liberties + Cardinality(free))

\* Game.count_liberties_of
count_liberties_of(board, vertex_tuple) ==
    LET color == at(board, vertex_tuple)
    IN  IF color = None THEN Raise
        ELSE Return(bfs(board, color, <<vertex_tuple>>, {}, 0))

\* --------------------------------------------------------------- legality

\* The outcome of a call that may also write the board.
Outcome(raised, value, board) ==
    [raised |-> raised, value |-> value, board |-> board]

\* is_not_suicide that leaves the probing stone on the board.
is_not_suicide_no_restore(board, move) ==
    LET vt == to_vertex_tuple(move.vertex)
    IN  IF vt.raised THEN Outcome(TRUE, FALSE, board)
        ELSE IF at(board, vt.value) # None THEN Outcome(TRUE, FALSE, board)
        ELSE LET placed == [board EXCEPT !.tup[vt.value] = move.color]
                 liberty_count == count_liberties_of(placed, vt.value)
             IN  Outcome(liberty_count.raised, liberty_count.value # 0, placed)

\* is_not_suicide that compares the liberty count with >= 0.
is_not_suicide_nonnegative(board, move) ==
    LET vt == to_vertex_tuple(move.vertex)
    IN  IF vt.raised THEN Outcome(TRUE, FALSE, board)
        ELSE IF at(board, vt.value) # None THEN Outcome(TRUE, FALSE, board)
        ELSE LET placed == [board EXCEPT !.tup[vt.value] = move.color]
                 liberty_count == count_liberties_of(placed, vt.value)
             IN  Outcome(liberty_count.raised, liberty_count.value >= 0, board)

\* is_not_suicide that asks for more than one liberty.
is_not_suicide_more_than_one(board, move) ==
    LET vt == to_vertex_tuple(move.vertex)
    IN  IF vt.raised THEN Outcome(TRUE, FALSE, board)
        ELSE IF at(board, vt.value) # None THEN Outcome(TRUE, FALSE, board)
        ELSE LET placed == [board EXCEPT !.tup[vt.value] = move.color]
                 liberty_count == count_liberties_of(placed, vt.value)
                 restored == [placed EXCEPT !.tup[vt.value] = None]
             IN  IF liberty_count.raised THEN Outcome(TRUE, FALSE, placed)
                 ELSE Outcome(FALSE, liberty_count.value > 1, restored)

\* Game.is_not_suicide: the stone is placed, the liberties of its group are
\* counted and the stone is taken off again.
is_not_suicide(board, move) ==
    LET probe(vt) ==
            IF vt.raised THEN Outcome(TRUE, FALSE, board)
            ELSE IF at(board, vt.value) # None
            THEN Outcome(TRUE, FALSE, board)
            ELSE LET placed == [board EXCEPT !.tup[vt.value] = move.color]
                     restored == [placed EXCEPT !.tup[vt.value] = None]
                     verdict(liberty_count) ==
                         IF liberty_count.raised
                         THEN Outcome(TRUE, FALSE, placed)
                         ELSE Outcome(FALSE, liberty_count.value # 0,
                                      restored)
                 IN  verdict(count_liberties_of(placed, vt.value))
    IN  probe(to_vertex_tuple(move.vertex))

\* is_legal without the test that the point is empty.
is_legal_no_empty_test(board, current_player, move) ==
    IF current_player = move.color
    THEN IF move.vertex \in {HTP_PASS, HTP_RESIGN}
         THEN Outcome(FALSE, TRUE, board)
         ELSE LET vt == to_vertex_tuple(move.vertex)
              IN  IF vt.raised THEN Outcome(vt.error # ValueError, FALSE, board)
                  ELSE is_not_suicide(board, move)
    ELSE Outcome(FALSE, FALSE, board)

\* is_legal that accepts the sentinels before it looks at the color.
is_legal_sentinel_first(board, current_player, move) ==
    IF move.vertex \in {HTP_PASS, HTP_RESIGN}
    THEN Outcome(FALSE, TRUE, board)
    ELSE IF current_player = move.color
         THEN LET vt == to_vertex_tuple(move.vertex)
              IN  IF vt.raised THEN Outcome(vt.error # ValueError, FALSE, board)
                  ELSE IF at(board, vt.value) = None
                       THEN is_not_suicide(board, move)
                       ELSE Outcome(FALSE, FALSE, board)
         ELSE Outcome(FALSE, FALSE, board)

\* Game.is_legal: only the ValueError of to_vertex_tuple is caught.
is_legal(board, current_player, move) ==
    IF current_player = move.color
    THEN IF move.vertex \in {HTP_PASS, HTP_RESIGN}
         THEN Outcome(FALSE, TRUE, board)
         ELSE LET checked(vt) ==
                      IF vt.raised
                      THEN Outcome(vt.error # ValueError, FALSE, board)
                      ELSE IF at(board, vt.value) = None
                           THEN is_not_suicide(board, move)
                           ELSE Outcome(FALSE, FALSE, board)
              IN  checked(to_vertex_tuple(move.vertex))
    ELSE Outcome(FALSE, FALSE, board)

\* play that keeps the turn after a pass or a resignation.
play_keeps_turn_on_sentinel(board, movelist, current_player, move) ==
    LET legal == is_legal(board, current_player, move)
    IN  IF ~legal.raised /\ legal.value
        THEN [raised |-> FALSE,
              board |-> [legal.board EXCEPT !.str[move.vertex] = move.color],
              movelist |-> Append(movelist, move),
              current_player |->
                  IF move.vertex \in {HTP_PASS, HTP_RESIGN} THEN current_player
                  ELSE IF current_player = BLUE THEN RED ELSE BLUE]
        ELSE [raised |-> TRUE,
              board |-> legal.board,
              movelist |-> movelist,
              current_player |-> current_player]

\* play that writes the board before it checks the move.
play_writes_first(board, movelist, current_player, move) ==
    LET legal == is_legal(board, current_player, move)
        written == [legal.board EXCEPT !.str[move.vertex] = move.color]
    IN  IF ~legal.raised /\ legal.value
        THEN [raised |-> FALSE,
              board |-> written,
              movelist |-> Append(movelist, move),
              current_player |-> IF current_player = BLUE THEN RED ELSE BLUE]
        ELSE [raised |-> TRUE,
              board |-> written,
              movelist |-> movelist,
              current_player |-> current_player]

\* play that puts the move at the front of the move list.
play_prepends(board, movelist, current_player, move) ==
    LET legal == is_legal(board, current_player, move)
    IN  IF ~legal.raised /\ legal.value
        THEN [raised |-> FALSE,
              board |-> [legal.board EXCEPT !.str[move.vertex] = move.color],
              movelist |-> <<move>> \o movelist,
              current_player |-> IF current_player = BLUE THEN RED ELSE BLUE]
        ELSE [raised |-> TRUE,
              board |-> legal.board,
              movelist |-> movelist,
              current_player |-> current_player]

\* Game.play: the game after the call and whether the call raised.
play(board, movelist, current_player, move) ==
    LET after(legal) ==
            IF ~legal.raised /\ legal.value
            THEN [raised |-> FALSE,
                  board |-> [legal.board EXCEPT
                               !.str[move.vertex] = move.color],
                  movelist |-> Append(movelist, move),
                  current_player |->
                      IF current_player = BLUE THEN RED ELSE BLUE]
            ELSE [raised |-> TRUE,
                  board |-> legal.board,
                  movelist |-> movelist,
                  current_player |-> current_player]
    IN  after(is_legal(board, current_player, move))

\* ------------------------------------------------------------ memoization

\* A dict as a function on the keys that are set.
EmptyDict == <<>>

Put(dict, key, value) ==
    [k \in DOMAIN dict \cup {key} |-> IF k = key THEN value ELSE dict[k]]

\* __conversion_dict = {} and __neighbors_dict = {}
EmptyCaches == [conversion |-> EmptyDict, neighbors |-> EmptyDict]

\* What a call gives together with the caches it leaves.
Cached(out, cs) == [out |-> out, caches |-> cs]

\* to_vertex_tuple whose dict is keyed by the first two characters of the
\* text.
to_vertex_tuple_memo_short_key(cs, vertex) ==
    LET key == SubSeq(vertex, 1, 2)
    IN  IF key \in DOMAIN cs.conversion
        THEN Cached(Return(cs.conversion[key]), cs)
        ELSE LET out == to_vertex_tuple(vertex)
             IN  IF out.raised THEN Cached(out, cs)
                 ELSE Cached(out, [cs EXCEPT
                                     !.conversion = Put(@, key, out.value)])

\* Game.to_vertex_tuple with its cache: a text that is a key is answered
\* from the dict, a text that parses is stored, a text that fails is not.
to_vertex_tuple_memo(cs, vertex) ==
    IF vertex \in DOMAIN cs.conversion
    THEN Cached(Return(cs.conversion[vertex]), cs)
    ELSE LET out == to_vertex_tuple(vertex)
         IN  IF out.raised THEN Cached(out, cs)
             ELSE Cached(out, [cs EXCEPT
                                 !.conversion = Put(@, vertex, out.value)])

\* Game.get_neighbors with its cache.
get_neighbors_memo(cs, vertex_tuple) ==
    IF vertex_tuple \in DOMAIN cs.neighbors
    THEN Cached(cs.neighbors[vertex_tuple], cs)
    ELSE LET neighbors == get_neighbors(vertex_tuple)
         IN  Cached(neighbors,
                    [cs EXCEPT !.neighbors = Put(@, vertex_tuple, neighbors)])

\* The while loop of count_liberties_of, reading get_neighbors through the
\* cache.
RECURSIVE bfs_memo(_, _, _, _, _, _)
bfs_memo(cs, board, color, queue, expanded, liberties) ==
    IF Len(queue) = 0 THEN Cached(liberties, cs)
    ELSE LET visiting == Head(queue)
             rest == Tail(queue)
         IN  IF visiting \in expanded
             THEN bfs_memo(cs, board, color, rest, expanded, liberties)
             ELSE LET expand(got) ==
                          LET nbrs == got.out
                              free == {i \in 1..Len(nbrs) :
                                          at(board, nbrs[i]) = None}
                              same == SelectSeq(nbrs,
                                          LAMBDA n : at(board, n) = color)
                          IN  bfs_memo(got.caches, board, color,
                                       rest \o same,
                                       expanded \cup {visiting},
                                       liberties + Cardinality(free))
                  IN  expand(get_neighbors_memo(cs, visiting))

\* Game.count_liberties_of with the caches.
count_liberties_of_memo(cs, board, vertex_tuple) ==
    LET color == at(board, vertex_tuple)
    IN  IF color = None THEN Cached(Raise, cs)
        ELSE LET counted(done) == Cached(Return(done.out), done.caches)
             IN  counted(bfs_memo(cs, board, color, <<vertex_tuple>>, {}, 0))

\* Game.is_not_suicide with the caches.
is_not_suicide_memo(cs, board, move) ==
    LET probe(vt) ==
            IF vt.out.raised
            THEN Cached(Outcome(TRUE, FALSE, board), vt.caches)
            ELSE IF at(board, vt.out.value) # None
            THEN Cached(Outcome(TRUE, FALSE, board), vt.caches)
            ELSE LET placed ==
                         [board EXCEPT !.tup[vt.out.value] = move.color]
                     restored == [placed EXCEPT !.tup[vt.out.value] = None]
                     verdict(counted) ==
                         IF counted.out.raised
                         THEN Cached(Outcome(TRUE, FALSE, placed),
                                     counted.caches)
                         ELSE Cached(Outcome(FALSE, counted.out.value # 0,
                                             restored),
                                     counted.caches)
                 IN  verdict(count_liberties_of_memo(vt.caches, placed,
                                                     vt.out.value))
    IN  probe(to_vertex_tuple_memo(cs, move.vertex))

\* Game.is_legal with the caches.
is_legal_memo(cs, board, current_player, move) ==
    IF current_player = move.color
    THEN IF move.vertex \in {HTP_PASS, HTP_RESIGN}
         THEN Cached(Outcome(FALSE, TRUE, board), cs)
         ELSE LET checked(vt) ==
                      IF vt.out.raised
                      THEN Cached(Outcome(vt.out.error # ValueError, FALSE,
                                          board),
                                  vt.caches)
                      ELSE IF at(board, vt.out.value) = None
                           THEN is_not_suicide_memo(vt.caches, board, move)
                           ELSE Cached(Outcome(FALSE, FALSE, board),
                                       vt.caches)
              IN  checked(to_vertex_tuple_memo(cs, move.vertex))
    ELSE Cached(Outcome(FALSE, FALSE, board), cs)

\* Game.play with the caches.
play_memo(cs, board, movelist, current_player, move) ==
    LET after(legal) ==
            IF ~legal.out.raised /\ legal.out.value
            THEN Cached([raised |-> FALSE,
                         board |-> [legal.out.board EXCEPT
                                      !.str[move.vertex] = move.color],
                         movelist |-> Append(movelist, move),
                         current_player |->
                             IF current_player = BLUE THEN RED ELSE BLUE],
                        legal.caches)
            ELSE Cached([raised |-> TRUE,
                         board |-> legal.out.board,
                         movelist |-> movelist,
                         current_player |-> current_player],
                        legal.caches)
    IN  after(is_legal_memo(cs, board, current_player, move))

\* str(n) of a natural number.
RECURSIVE str(_)
str(n) == IF n < 10 THEN <<Digits[n + 1]>>
          ELSE str(n \div 10) \o <<Digits[(n % 10) + 1]>>

\* chr(n) of the code point of a lower-case letter.
chr(n) == LowerCase[n - ord("a") + 1]

\* "{}{}".format(row_letter, col): the text the engine writes for a point.
htp_vertex(row_letter, col) == <<row_letter>> \o str(col)

\* The text the scenarios name a point of the lower half by: its row
\* letter in lower case and its column.
vertex_of(vertex_tuple) ==
    htp_vertex(chr(ord("a") + vertex_tuple[1] - 1), vertex_tuple[2])

\* The points of Region in the order the scenarios list their stones.
RegionOrder ==
    <<<<1, 1>>, <<1, 2>>, <<1, 3>>, <<1, 4>>, <<2, 2>>, <<2, 3>>, <<2, 4>>>>

\* The moves of a scenario that puts the stones on the board.
RECURSIVE moves_of(_, _)
moves_of(stones, i) ==
    IF i > Len(RegionOrder) THEN <<>>
    ELSE IF stones[RegionOrder[i]] = None THEN moves_of(stones, i + 1)
    ELSE <<Move(stones[RegionOrder[i]], vertex_of(RegionOrder[i]))>>
             \o moves_of(stones, i + 1)

\* for move in moves: game.board[game.to_vertex_tuple(move.vertex)] =
\* move.color, on the dicts cs: the set-up of a scenario.  The texts of the
\* scenarios parse.
RECURSIVE set_up(_, _, _)
set_up(cs, board, moves) ==
    IF moves = <<>> THEN [board |-> board, caches |-> cs]
    ELSE LET placed(vt) ==
                 set_up(vt.caches,
                        [board EXCEPT !.tup[vt.out.value] = Head(moves).color],
                        Tail(moves))
         IN  placed(to_vertex_tuple_memo(cs, Head(moves).vertex))

\* ---------------------------------------------------------- state machine

VARIABLES
    board,           \* Game.board
    movelist,        \* Game.movelist
    current_player,  \* Game.current_player
    last,            \* the last call made on the game and its outcome
    accepted,        \* the moves play has accepted so far, in order
    caches,          \* Game.__conversion_dict and Game.__neighbors_dict
    search,          \* the locals of a running count_liberties_of
    engine           \* the locals of main() of the random move engine

vars ==
    <<board, movelist, current_player, last, accepted, caches, search,
      engine>>

\* What the calls on a Game leave alone: the liberty search is given step
\* by step, and the engine is run, in specifications of their own.
others == <<search, engine>>

\* No search is running.
NoSearch == [pc |-> "idle"]

\* The engine is not running.
NoEngine == [pc |-> "idle"]

NoMove == Move(None, <<>>)

NoCoord == <<0, 0>>

\* A call and its outcome: op names the method, move or coord its argument,
\* raised tells a ValueError, ok is a boolean return value, n an integer one.
Call(op, move, coord, raised, ok, n) ==
    [op |-> op, move |-> move, coord |-> coord, raised |-> raised,
     ok |-> ok, n |-> n]

\* Game.__init__
Init ==
    /\ board = EmptyBoard
    /\ movelist = <<>>
    /\ current_player = BLUE
    /\ last = Call("__init__", NoMove, NoCoord, FALSE, FALSE, 0)
    /\ accepted = <<>>
    /\ caches = EmptyCaches
    /\ search = NoSearch
    /\ engine = NoEngine

\* A scenario of the module's own tests in a new process: a new Game, the
\* color to move set by hand and each stone written onto the board at the
\* point to_vertex_tuple gives for its text, which the dict of the class
\* keeps.
InitScenario ==
    /\ \E stones \in [Region -> Colors \cup {None}] :
          /\ Cardinality({c \in Region : stones[c] # None}) <= MaxStones
          /\ \E done \in {set_up(EmptyCaches, EmptyBoard,
                                 moves_of(stones, 1))} :
                /\ board = done.board
                /\ caches = done.caches
    /\ movelist = <<>>
    /\ current_player \in Colors
    /\ last = Call("__init__", NoMove, NoCoord, FALSE, FALSE, 0)
    /\ accepted = <<>>
    /\ search = NoSearch
    /\ engine = NoEngine

\* game.play(move)
Play(move) ==
    \E done \in {play(board, movelist, current_player, move)} :
        /\ board' = done.board
        /\ movelist' = done.movelist
        /\ current_player' = done.current_player
        /\ last' = Call("play", move, NoCoord, done.raised, FALSE, 0)
        /\ accepted' = IF done.raised THEN accepted ELSE Append(accepted, move)
        /\ caches' = play_memo(caches, board, movelist, current_player,
                               move).caches
        /\ UNCHANGED others

\* game.is_legal(move)
IsLegal(move) ==
    \E done \in {is_legal(board, current_player, move)} :
        /\ board' = done.board
        /\ last' = Call("is_legal", move, NoCoord, done.raised, done.value, 0)
        /\ caches' = is_legal_memo(caches, board, current_player, move).caches
        /\ UNCHANGED <<movelist, current_player, accepted, others>>

\* game.is_not_suicide(move)
IsNotSuicide(move) ==
    \E done \in {is_not_suicide(board, move)} :
        /\ board' = done.board
        /\ last' = Call("is_not_suicide", move, NoCoord, done.raised,
                        done.value, 0)
        /\ caches' = is_not_suicide_memo(caches, board, move).caches
        /\ UNCHANGED <<movelist, current_player, accepted, others>>

\* game.count_liberties_of(vertex_tuple)
CountLibertiesOf(vertex_tuple) ==
    \E done \in {count_liberties_of(board, vertex_tuple)} :
        /\ last' = Call("count_liberties_of", NoMove, vertex_tuple,
                        done.raised, FALSE, done.value)
        /\ caches' = count_liberties_of_memo(caches, board, vertex_tuple).caches
        /\ UNCHANGED <<board, movelist, current_player, accepted, others>>

\* Any sequence of calls on a new game.
Next ==
    \/ \E move \in Moves : Len(movelist) < MaxMoves /\ Play(move)
    \/ \E move \in Moves : IsLegal(move)
    \/ \E move \in Moves : IsNotSuicide(move)
    \/ \E vertex_tuple \in Region : CountLibertiesOf(vertex_tuple)

Spec == Init /\ [][Next]_vars

\* The call of a scenario: each scenario sets the game up and makes one call.
NextScenario ==
    /\ last.op = "__init__"
    /\ \/ \E move \in Moves : Play(move)
       \/ \E move \in Moves : IsLegal(move)
       \/ \E move \in Moves : IsNotSuicide(move)
       \/ \E vertex_tuple \in Region : CountLibertiesOf(vertex_tuple)

SpecScenario == InitScenario /\ [][NextScenario]_vars

\* The characters the texts are made of: row letters of both cases and of
\* both halves of the board, a letter past the last row, digits, a sign and
\* the letter whose lower case has two characters.
TextChars ==
    {"a", "e", "f", "j", "k", "A", "J", "0", "1", "2", "4", "9", "-",
     CAPITAL_I_DOT}

RECURSIVE TextsOfLen(_)
TextsOfLen(n) ==
    IF n = 0 THEN {<<>>}
    ELSE {<<ch>> \o text : ch \in TextChars, text \in TextsOfLen(n - 1)}

\* The texts to_vertex_tuple is called with: every text of up to MaxTextLen
\* characters, the sentinels, a text of four characters and the text the
\* engine writes for each point of the board.
Texts ==
    UNION {TextsOfLen(n) : n \in 0..MaxTextLen}
        \cup {HTP_PASS, HTP_RESIGN, <<"a", "0", "0", "1">>}
        \cup {htp_vertex(chr(ord("a") + c[1] - 1), c[2]) : c \in Coords}

\* A call of one of the two static methods and its outcome.
StaticCall(op, vertex, vertex_tuple, out) ==
    [op |-> op, move |-> Move(None, vertex), coord |-> vertex_tuple,
     raised |-> out.raised, ok |-> FALSE, n |-> 0,
     error |-> out.error, value |-> out.value]

\* Game.to_vertex_tuple(vertex)
ToVertexTuple(vertex) ==
    \E done \in {to_vertex_tuple_memo(caches, vertex)} :
        /\ last' = StaticCall("to_vertex_tuple", vertex, NoCoord, done.out)
        /\ caches' = done.caches
        /\ UNCHANGED <<board, movelist, current_player, accepted, others>>

\* Game.get_neighbors(vertex_tuple)
GetNeighbors(vertex_tuple) ==
    \E done \in {get_neighbors_memo(caches, vertex_tuple)} :
        /\ last' = StaticCall("get_neighbors", <<>>, vertex_tuple,
                              Return(done.out))
        /\ caches' = done.caches
        /\ UNCHANGED <<board, movelist, current_player, accepted, others>>

\* One call of a static method, the caches being empty.
NextStatic ==
    /\ last.op = "__init__"
    /\ \/ \E vertex \in Texts : ToVertexTuple(vertex)
       \/ \E vertex_tuple \in Coords : GetNeighbors(vertex_tuple)

SpecStatic == Init /\ [][NextStatic]_vars

\* The points the games that share the caches are asked about: the corner
\* and its two neighbors.
CacheRegion == {<<1, 1>>, <<1, 2>>, <<2, 2>>}

\* The scenarios those games are set up with: no stone, the corner point
\* with two stones of one color next to it, and with one of each color.
CacheScenarios ==
    {<<>>,
     <<Move(BLUE, <<"a", "2">>), Move(BLUE, <<"b", "2">>)>>,
     <<Move(RED, <<"a", "2">>), Move(BLUE, <<"b", "2">>)>>}

\* Another Game, set up as the scenarios are: the color to move is set by
\* hand, the dicts of the class stay and gain the texts of the stones.
NewGame(moves, color) ==
    \E done \in {set_up(caches, EmptyBoard, moves)} :
        /\ board' = done.board
        /\ movelist' = <<>>
        /\ current_player' = color
        /\ last' = Call("__init__", NoMove, NoCoord, FALSE, FALSE, 0)
        /\ accepted' = <<>>
        /\ caches' = done.caches
        /\ UNCHANGED others

\* Calls on any number of games, one after the other, and of the static
\* methods.
NextCache ==
    \/ \E move \in Moves : Len(movelist) < MaxCacheMoves /\ Play(move)
    \/ \E move \in Moves : IsLegal(move)
    \/ \E move \in Moves : IsNotSuicide(move)
    \/ \E vertex_tuple \in CacheRegion : CountLibertiesOf(vertex_tuple)
    \/ \E vertex \in Vertices : ToVertexTuple(vertex)
    \/ \E vertex_tuple \in CacheRegion : GetNeighbors(vertex_tuple)
    \/ \E moves \in CacheScenarios, color \in Colors : NewGame(moves, color)

SpecCache == Init /\ [][NextCache]_vars

\* The locals of count_liberties_of before its loop.  order lists the
\* points expanded and enqueued the points appended to the queue, in order.
Searching(vertex_tuple, color) ==
    [pc |-> "loop", start |-> vertex_tuple, color |-> color,
     queue |-> <<vertex_tuple>>, expanded |-> {}, liberties |-> 0,
     order |-> <<>>, enqueued |-> <<vertex_tuple>>]

\* One iteration of the loop without the test of line 61.
bfs_step_no_expanded_test(b, s) ==
    LET visiting == Head(s.queue)
        rest == Tail(s.queue)
        nbrs == get_neighbors(visiting)
        free == {i \in 1..Len(nbrs) : at(b, nbrs[i]) = None}
        same == SelectSeq(nbrs, LAMBDA n : at(b, n) = s.color)
    IN  [s EXCEPT !.queue = rest \o same,
                  !.expanded = @ \cup {visiting},
                  !.liberties = @ + Cardinality(free),
                  !.order = Append(@, visiting),
                  !.enqueued = @ \o same]

\* One iteration of the while loop of count_liberties_of.
bfs_step(b, s) ==
    LET visiting == Head(s.queue)
        rest == Tail(s.queue)
    IN  IF visiting \in s.expanded THEN [s EXCEPT !.queue = rest]
        ELSE LET nbrs == get_neighbors(visiting)
                 free == {i \in 1..Len(nbrs) : at(b, nbrs[i]) = None}
                 same == SelectSeq(nbrs, LAMBDA n : at(b, n) = s.color)
             IN  [s EXCEPT !.queue = rest \o same,
                           !.expanded = @ \cup {visiting},
                           !.liberties = @ + Cardinality(free),
                           !.order = Append(@, visiting),
                           !.enqueued = @ \o same]

\* count_liberties_of(vertex_tuple) up to its loop: the error for an empty
\* point, or the queue with the start in it.
StartSearch(vertex_tuple) ==
    /\ search.pc = "idle"
    /\ last.op = "__init__"
    /\ IF at(board, vertex_tuple) = None
       THEN /\ last' = Call("count_liberties_of", NoMove, vertex_tuple,
                            TRUE, FALSE, 0)
            /\ UNCHANGED search
       ELSE /\ search' = Searching(vertex_tuple, at(board, vertex_tuple))
            /\ UNCHANGED last
    /\ UNCHANGED <<board, movelist, current_player, accepted, caches, engine>>

\* while queue: one iteration.
Visit ==
    /\ search.pc = "loop"
    /\ search.queue # <<>>
    /\ search' = bfs_step(board, search)
    /\ caches' = IF Head(search.queue) \in search.expanded THEN caches
                 ELSE get_neighbors_memo(caches, Head(search.queue)).caches
    /\ UNCHANGED <<board, movelist, current_player, last, accepted, engine>>

\* The loop ends with the queue empty: return liberties.
Finish ==
    /\ search.pc = "loop"
    /\ search.queue = <<>>
    /\ search' = [search EXCEPT !.pc = "done"]
    /\ last' = Call("count_liberties_of", NoMove, search.start, FALSE, FALSE,
                    search.liberties)
    /\ UNCHANGED <<board, movelist, current_player, accepted, caches, engine>>

NextSearch ==
    \/ \E vertex_tuple \in Region : StartSearch(vertex_tuple)
    \/ Visit
    \/ Finish

\* A search that has started goes on.
SpecSearch ==
    InitScenario /\ [][NextSearch]_vars /\ WF_vars(Visit) /\ WF_vars(Finish)

\* ----------------------------------------------------- random move engine

\* The vertices prepare_moves appends for one value of row, in order: each
\* column of the row and of the row reflected.
moves_of_row(row) ==
    [k \in 1..(2 * (8 + 2 * row)) |->
        LET col == (k + 1) \div 2
            row_letter == chr(ord("a") + row)
            reflected_row_letter == chr(ord("a") + (9 - row))
        IN  IF k % 2 = 1 THEN htp_vertex(row_letter, col)
            ELSE htp_vertex(reflected_row_letter, col)]

\* moves of prepare_moves before the shuffle, cut to MaxEngineMoves.
moves_in_order ==
    SubSeq(moves_of_row(0) \o moves_of_row(1) \o moves_of_row(2)
               \o moves_of_row(3) \o moves_of_row(4),
           1, MaxEngineMoves)

\* random.shuffle(moves): any order of the same elements.
shuffle(moves) ==
    {list \in [1..Len(moves) -> Range(moves)] :
        \A i, j \in 1..Len(moves) : list[i] = list[j] => i = j}

\* prepare_moves(): the lists it can return.
prepare_moves == shuffle(moves_in_order)

\* pattern in text, for two str.
Contains(text, pattern) ==
    \E i \in 1..(Len(text) - Len(pattern) + 1) :
        SubSeq(text, i, i + Len(pattern) - 1) = pattern

\* str.strip() of blanks.
RECURSIVE strip(_)
strip(text) ==
    IF text = <<>> THEN text
    ELSE IF Head(text) = " " THEN strip(Tail(text))
    ELSE IF text[Len(text)] = " " THEN strip(SubSeq(text, 1, Len(text) - 1))
    ELSE text

\* command.rsplit(" ", maxsplit=1)[-1]: what follows the last blank.
RECURSIVE last_field(_)
last_field(text) ==
    IF text = <<>> THEN text
    ELSE IF text[Len(text)] = " " THEN <<>>
    ELSE last_field(SubSeq(text, 1, Len(text) - 1)) \o <<text[Len(text)]>>

QUIT == <<"q", "u", "i", "t">>

CLEAR_BOARD == <<"c", "l", "e", "a", "r", "_", "b", "o", "a", "r", "d">>

PLAY == <<"p", "l", "a", "y">>

GENMOVE == <<"g", "e", "n", "m", "o", "v", "e">>

\* The line printed for a command the engine does not know.
UNKNOWN_COMMAND ==
    <<"?", " ", "U", "n", "k", "n", "o", "w", "n", " ",
      "c", "o", "m", "m", "a", "n", "d", ".", " ">>

\* The lines the engine reads: the four commands, play with a vertex of
\* the move list in lower and in upper case, with a vertex that is not in
\* the cut list, with pass, and a command the engine does not know.
Commands ==
    {QUIT, CLEAR_BOARD, GENMOVE \o <<" ", "b">>, GENMOVE \o <<" ", "w">>,
     PLAY \o <<" ", "b", " ", "a", "1">>,
     PLAY \o <<" ", "w", " ", "A", "1">>,
     PLAY \o <<" ", "b", " ", "j", "1">>,
     PLAY \o <<" ", "w", " ", "e", "9">>,
     PLAY \o <<" ", "b", " ">> \o HTP_PASS,
     <<"n", "a", "m", "e">>}

\* The engine waits at input().  played_moves holds the keys of the dict.
\* command, response and printed record the last line read, the last line
\* printed and the number of lines printed since; named holds the
\* vertices played since the last clear_board, in lower case, and earlier
\* those of them played before the last line was read; list_before and
\* played_before hold move_list and played_moves as they were when the
\* last line was read.
Started(move_list) ==
    [pc |-> "input", move_list |-> move_list, played_moves |-> {},
     next_move |-> <<>>, command |-> <<>>, response |-> <<>>, printed |-> 0,
     named |-> {}, earlier |-> {}, list_before |-> move_list,
     played_before |-> {}]

\* The text in lower case.
RECURSIVE LowerText(_)
LowerText(text) ==
    IF text = <<>> THEN text ELSE lower(Head(text)) \o LowerText(Tail(text))

\* print("=") or print("= {}".format(next_move)): the answer to a command.
Answer(e, response) ==
    [e EXCEPT !.response = response, !.printed = @ + 1, !.pc = "input"]

\* main(), from input() to the branch taken; the genmove branch goes on
\* in Pop and Test.
Command(command) ==
    /\ engine.pc = "input"
    /\ LET e == [engine EXCEPT !.command = command, !.printed = 0,
                               !.earlier = engine.named,
                               !.list_before = engine.move_list,
                               !.played_before = engine.played_moves]
       IN  IF Contains(command, QUIT)
           THEN engine' = [Answer(e, <<"=">>) EXCEPT !.pc = "exit"]
           ELSE IF Contains(command, CLEAR_BOARD)
           THEN \E move_list \in prepare_moves :
                    engine' = [Answer(e, <<"=">>) EXCEPT
                                 !.played_moves = {},
                                 !.move_list = move_list,
                                 !.named = {}, !.earlier = {}]
           ELSE IF Contains(command, PLAY)
           THEN LET move == strip(last_field(command))
                IN  engine' =
                        IF move \notin {HTP_PASS, HTP_RESIGN}
                        THEN [Answer(e, <<"=">>) EXCEPT
                                !.played_moves = @ \cup {move},
                                !.named = @ \cup {LowerText(move)}]
                        ELSE Answer(e, <<"=">>)
           ELSE IF Contains(command, GENMOVE)
           THEN engine' = [e EXCEPT !.pc = "pop"]
           ELSE engine' = Answer(e, UNKNOWN_COMMAND)
    /\ UNCHANGED <<board, movelist, current_player, last, accepted, caches,
                   search>>

\* next_move = move_list.pop(), and the handler of its IndexError.
Pop ==
    /\ engine.pc = "pop"
    /\ engine' =
           IF engine.move_list = <<>>
           THEN [Answer(engine, <<"=", " ">> \o HTP_PASS) EXCEPT
                   !.next_move = HTP_PASS]
           ELSE [engine EXCEPT
                   !.next_move = engine.move_list[Len(engine.move_list)],
                   !.move_list = SubSeq(@, 1, Len(@) - 1),
                   !.pc = "test"]
    /\ UNCHANGED <<board, movelist, current_player, last, accepted, caches,
                   search>>

\* The genmove branch without the loop: whatever was popped is answered.
Test_answers_any ==
    /\ engine.pc = "test"
    /\ engine' =
           [Answer(engine, <<"=", " ">> \o engine.next_move) EXCEPT
              !.played_moves = @ \cup {engine.next_move},
              !.named = @ \cup {LowerText(engine.next_move)}]
    /\ UNCHANGED <<board, movelist, current_player, last, accepted, caches,
                   search>>

\* while next_move in played_moves, and what follows the loop.
Test ==
    /\ engine.pc = "test"
    /\ engine' =
           IF engine.next_move \in engine.played_moves
           THEN [engine EXCEPT !.pc = "pop"]
           ELSE [Answer(engine, <<"=", " ">> \o engine.next_move) EXCEPT
                   !.played_moves = @ \cup {engine.next_move},
                   !.named = @ \cup {LowerText(engine.next_move)}]
    /\ UNCHANGED <<board, movelist, current_player, last, accepted, caches,
                   search>>

\* move_list = prepare_moves(); played_moves = {}
InitEngine ==
    /\ board = EmptyBoard
    /\ movelist = <<>>
    /\ current_player = BLUE
    /\ last = Call("__init__", NoMove, NoCoord, FALSE, FALSE, 0)
    /\ accepted = <<>>
    /\ caches = EmptyCaches
    /\ search = NoSearch
    /\ \E move_list \in prepare_moves : engine = Started(move_list)

NextEngine ==
    \/ \E command \in Commands : Command(command)
    \/ Pop
    \/ Test

SpecEngine == InitEngine /\ [][NextEngine]_vars

\* The engine goes on with a command it has read; it may wait for the next
\* line for ever.
SpecEngineFair == SpecEngine /\ WF_vars(Pop) /\ WF_vars(Test)

\* ------------------------------------------------------------ properties

Sentinels == {HTP_PASS, HTP_RESIGN}

\* The move names a board vertex: neither pass nor resign, and it parses.
IsPlacement(move) ==
    move.vertex \notin Sentinels /\ ~to_vertex_tuple(move.vertex).raised

\* The point a placement names.
PointOf(move) == to_vertex_tuple(move.vertex).value

\* is_legal(move) returns False in the current state.
Illegal(move) ==
    LET legal == is_legal(board, current_player, move)
    IN  ~legal.raised /\ ~legal.value

\* The last call was play(move) and it was accepted.
Accepted(call) == call.op = "play" /\ ~call.raised

\* The last call was play(move) and it raised ValueError.
Rejected(call) == call.op = "play" /\ call.raised

\* C1: right after play has accepted a move with a board vertex, the point
\* that to_vertex_tuple gives for the vertex holds the move's color, and
\* count_liberties_of on that point does not fail as an empty point.
C1_PlayedPointHoldsColor ==
    (Accepted(last) /\ IsPlacement(last.move)) =>
        /\ at(board, PointOf(last.move)) = last.move.color
        /\ ~count_liberties_of(board, PointOf(last.move)).raised

\* C2: BLUE is to move after an even number of accepted moves and RED after
\* an odd number; a new game has accepted none, and a rejected move does
\* not count.
C2_TurnFollowsParity ==
    current_player = IF Len(accepted) % 2 = 0 THEN BLUE ELSE RED

\* A stone, then a pass, then a rejected move: two moves were accepted and
\* BLUE is to move again.
C2_Witness ==
    /\ Len(accepted) = 2
    /\ IsPlacement(accepted[1])
    /\ accepted[2].vertex = HTP_PASS
    /\ Rejected(last)
    /\ current_player = BLUE

\* C3: play of a move for which is_legal is false raises ValueError and
\* leaves the board, the move list and the color to move as they were.
C3_IllegalPlayChangesNothing ==
    [][\A move \in Moves :
         (last'.op = "play" /\ last'.move = move /\ Illegal(move)) =>
             /\ last'.raised
             /\ board' = board
             /\ movelist' = movelist
             /\ current_player' = current_player]_vars

\* play has rejected a move of the color to move onto an empty point: a
\* suicide.
C3_Witness ==
    /\ Rejected(last)
    /\ last.move.color = current_player
    /\ IsPlacement(last.move)
    /\ at(board, PointOf(last.move)) = None
    /\ movelist = <<>>

\* C4: is_legal returns False for every move whose vertex denotes a point
\* that holds a stone, whatever the color of the move and the color to move.
C4_OccupiedIsIllegal ==
    \A move \in Moves :
        (IsPlacement(move) /\ at(board, PointOf(move)) # None) => Illegal(move)

\* is_legal has returned False for a move of the color to move onto a point
\* that holds a stone of that color.
C4_Witness ==
    /\ last.op = "is_legal"
    /\ ~last.raised /\ ~last.ok
    /\ last.move.color = current_player
    /\ IsPlacement(last.move)
    /\ at(board, PointOf(last.move)) = current_player

\* C5: is_legal returns False for every move (placement, pass, resign or a
\* vertex that does not parse) whose color is not the color to move.
C5_WrongColorIsIllegal ==
    \A move \in Moves : move.color # current_player => Illegal(move)

\* is_legal has returned False for a pass of the color not to move.
C5_Witness ==
    /\ last.op = "is_legal"
    /\ ~last.raised /\ ~last.ok
    /\ last.move.color # current_player
    /\ last.move.vertex = HTP_PASS

\* The points next to a point.
NeighborSet(c) == {get_neighbors(c)[i] : i \in 1..Len(get_neighbors(c))}

\* The maximal connected set of stones of one color that contains the
\* stones of S, as a least fixed point.
RECURSIVE GroupFrom(_, _, _)
GroupFrom(b, color, S) ==
    LET T == S \cup {n \in UNION {NeighborSet(s) : s \in S} : at(b, n) = color}
    IN  IF T = S THEN S ELSE GroupFrom(b, color, T)

\* The group of the stone at c.
Group(b, c) == GroupFrom(b, at(b, c), {c})

\* The pairs (s, e): s a stone of the group of c, e an empty point next to s.
Adjacencies(b, c) ==
    {p \in UNION {{<<s, e>> : e \in NeighborSet(s)} : s \in Group(b, c)} :
        at(b, p[2]) = None}

\* The empty points next to the group of c.
LibertyPoints(b, c) == {p[2] : p \in Adjacencies(b, c)}

\* The board with the stone of a placement on it.
Placed(b, move) == [b EXCEPT !.tup[PointOf(move)] = move.color]

\* The move is a placement of the color to move onto an empty point.
Playable(move) ==
    /\ move.color = current_player
    /\ IsPlacement(move)
    /\ at(board, PointOf(move)) = None

\* Every point next to the placement holds a stone of the other color.
Surrounded(move) ==
    \A n \in NeighborSet(PointOf(move)) :
        at(board, n) \in Colors \ {move.color}

\* The placement would leave a group of the other color without liberties.
WouldCapture(move) ==
    \E n \in NeighborSet(PointOf(move)) :
        /\ at(board, n) \in Colors \ {move.color}
        /\ LibertyPoints(Placed(board, move), n) = {}

\* C6: is_legal returns False for a placement of the color to move onto an
\* empty point whenever the group of the placed stone would have no empty
\* neighbor; a placement surrounded by stones of the other color is such a
\* move, also when it would leave one of their groups without liberties.
C6_SuicideIsIllegal ==
    \A move \in Moves :
        Playable(move) =>
            /\ LibertyPoints(Placed(board, move), PointOf(move)) = {}
                   => Illegal(move)
            /\ Surrounded(move) => Illegal(move)

\* is_legal has returned False for a placement that is surrounded by the
\* other color and would capture.
C6_Witness ==
    /\ last.op = "is_legal"
    /\ ~last.raised /\ ~last.ok
    /\ Playable(last.move)
    /\ Surrounded(last.move)
    /\ WouldCapture(last.move)

\* is_legal has returned False for a placement that joins a stone of its
\* own color in a group without liberties.
C6_WitnessGroup ==
    /\ last.op = "is_legal"
    /\ ~last.raised /\ ~last.ok
    /\ Playable(last.move)
    /\ Cardinality(Group(Placed(board, last.move), PointOf(last.move))) > 1

\* C7: a call of is_legal or is_not_suicide, whether it returns True or
\* False or raises, leaves what every board key reads as, the move list and
\* the color to move unchanged.
C7_ProbesChangeNothing ==
    [][last'.op \in {"is_legal", "is_not_suicide"} =>
         /\ board' = board
         /\ movelist' = movelist
         /\ current_player' = current_player]_vars

\* is_not_suicide has placed the probing stone, found no liberty and
\* returned False.
C7_Witness ==
    /\ last.op = "is_not_suicide"
    /\ ~last.raised /\ ~last.ok
    /\ at(board, PointOf(last.move)) = None

\* is_not_suicide has raised on a point that holds a stone.
C7_WitnessRaise ==
    /\ last.op = "is_not_suicide"
    /\ last.raised
    /\ IsPlacement(last.move)
    /\ at(board, PointOf(last.move)) # None

\* C8: the move list is, in order, the sequence of the moves play has
\* accepted: an accepted move is appended at the end, a rejected move
\* leaves the list alone.
C8_MovelistMirrorsAccepted == movelist = accepted

\* Three different moves were accepted, the second one a pass.
C8_Witness ==
    /\ Len(movelist) = 3
    /\ movelist[1].vertex = <<"a", "1">>
    /\ movelist[2].vertex = HTP_PASS
    /\ movelist[3].vertex = <<"A", "2">>
    /\ Accepted(last)

\* C9: when play accepts a pass or a resignation the board is left as it
\* was: no entry is added or modified.
C9_SentinelLeavesBoard ==
    [][(Accepted(last') /\ last'.move.vertex \in Sentinels) =>
         board' = board]_vars

\* C10: for every stone c, count_liberties_of(c) is the number of pairs
\* (s, e) with s a stone of the group of c and e an empty neighbor of s: an
\* empty point next to k stones of the group counts k times, a stone of
\* the other color counts nothing.
C10_LibertiesCountAdjacencies ==
    \A c \in Region :
        at(board, c) # None =>
            count_liberties_of(board, c) =
                Return(Cardinality(Adjacencies(board, c)))

\* count_liberties_of has counted an empty point twice: the group has more
\* adjacencies than liberty points, and a stone of the other color lies
\* next to it.
C10_Witness ==
    /\ last.op = "count_liberties_of"
    /\ ~last.raised
    /\ last.n = Cardinality(Adjacencies(board, last.coord))
    /\ last.n > Cardinality(LibertyPoints(board, last.coord))
    /\ \E s \in Group(board, last.coord) : \E n \in NeighborSet(s) :
          at(board, n) \in Colors \ {at(board, last.coord)}

\* C11: for valid coordinates A and B, B is among get_neighbors(A) exactly
\* when A is among get_neighbors(B).  A is the coordinate of the last call.
C11_NeighborsSymmetric ==
    last.op = "get_neighbors" =>
        \A B \in Coords :
            B \in Range(last.value) <=> last.coord \in NeighborSet(B)

\* get_neighbors of a point of row 5 has given the point of row 6 across
\* the middle of the board, and that point gives the one of row 5 back.
C11_Witness ==
    /\ last.op = "get_neighbors"
    /\ last.coord = <<5, 5>>
    /\ <<6, 5>> \in Range(last.value)
    /\ <<5, 5>> \in NeighborSet(<<6, 5>>)
    /\ Len(last.value) = 3

\* The number of columns of rows 1 to 10.
RowLengths == <<11, 13, 15, 17, 19, 19, 17, 15, 13, 11>>

\* The letters a..j in either case.
RowLetters == {LowerCase[i] : i \in 1..10} \cup {UpperCase[i] : i \in 1..10}

\* The row a letter of RowLetters names.
RowOfLetter(ch) == CHOOSE i \in 1..10 : LowerCase[i] = ch \/ UpperCase[i] = ch

\* The text is one letter a..j in either case and one or two decimal digits
\* whose value is a column of the letter's row.
WellFormed(text) ==
    /\ Len(text) \in {2, 3}
    /\ text[1] \in RowLetters
    /\ \A i \in 2..Len(text) : text[i] \in Range(Digits)
    /\ LET col == int(SubSeq(text, 2, Len(text)))
       IN  1 <= col /\ col <= RowLengths[RowOfLetter(text[1])]

\* The call gave what the claim says of its text.
ParsedAsSpecified(call) ==
    LET text == call.move.vertex
    IN  /\ IF WellFormed(text)
           THEN /\ ~call.raised
                /\ call.value = <<RowOfLetter(text[1]),
                                  int(SubSeq(text, 2, Len(text)))>>
           ELSE call.raised /\ call.error = ValueError
        /\ \A c \in Coords :
               text = htp_vertex(LowerCase[c[1]], c[2]) =>
                   ~call.raised /\ call.value = c

\* C12: to_vertex_tuple returns (row, col) exactly for a text of one letter
\* a..j in either case and one or two digits with 1 <= col <= the length of
\* the row, raises ValueError for every other text, and gives (row, col)
\* back for the text written for (row, col).
C12_ParsesExactlyVertices ==
    last.op = "to_vertex_tuple" => ParsedAsSpecified(last)

\* The same for the texts that do not begin with the letter U+0130.
C12_ParsesExactlyAsciiVertices ==
    (last.op = "to_vertex_tuple"
        /\ (last.move.vertex = <<>> \/ last.move.vertex[1] # CAPITAL_I_DOT))
        => ParsedAsSpecified(last)

\* The vertex text is neither a sentinel nor the text of a vertex.
Unparseable(vertex) == vertex \notin Sentinels /\ ~WellFormed(vertex)

\* C13: for a move of the color to move whose vertex text is neither a
\* sentinel nor the text of a vertex, is_legal returns False without
\* raising, and play rejects the move.
C13_UnparseableIsIllegal ==
    (last.move.color = current_player /\ Unparseable(last.move.vertex)) =>
        /\ last.op = "is_legal" => ~last.raised /\ ~last.ok
        /\ last.op = "play" => last.raised /\ movelist = accepted

\* The engine has answered a genmove with a vertex.
Generated ==
    /\ engine.pc = "input"
    /\ Contains(engine.command, GENMOVE)
    /\ engine.printed = 1
    /\ engine.next_move # HTP_PASS

\* C14: the vertex a genmove answers with was not played since the last
\* clear_board: no earlier play command has named it, in either case of
\* the letter, and no earlier genmove has answered with it.
C14_GenmoveIsFresh ==
    Generated => LowerText(engine.next_move) \notin engine.earlier

\* The engine has answered the last line, a genmove.
GenmoveAnswered ==
    engine.pc = "input" /\ engine.command # <<>>
        /\ ~Contains(engine.command, QUIT)
        /\ ~Contains(engine.command, CLEAR_BOARD)
        /\ ~Contains(engine.command, PLAY)
        /\ Contains(engine.command, GENMOVE)

\* C20: a genmove that was read is answered, with one line; the answer is
\* pass or a vertex taken from the move list that was not in played_moves
\* when the command was read; a genmove read with the move list empty
\* answers pass, and the list is rebuilt and played_moves emptied by
\* clear_board only.
C20_GenmoveAnswersOnce ==
    /\ (engine.pc \in {"pop", "test"}) ~> (engine.pc = "input")
    /\ [](GenmoveAnswered =>
            /\ engine.printed = 1
            /\ engine.response = <<"=", " ">> \o engine.next_move
            /\ \/ engine.next_move = HTP_PASS
               \/ /\ engine.next_move \in Range(engine.list_before)
                  /\ engine.next_move \notin Range(engine.move_list)
                  /\ engine.next_move \notin engine.played_before
            /\ engine.list_before = <<>> => engine.next_move = HTP_PASS)
    /\ [][\/ Len(engine'.move_list) <= Len(engine.move_list)
           \/ /\ Contains(engine'.command, CLEAR_BOARD)
              /\ engine'.move_list \in prepare_moves
              /\ engine'.played_moves = {}]_vars

\* Every vertex of the move list was played or answered and the list is
\* used up: a genmove read with the list empty has answered pass, once.
C20_Witness ==
    /\ GenmoveAnswered
    /\ engine.list_before = <<>>
    /\ engine.next_move = HTP_PASS
    /\ engine.printed = 1
    /\ Cardinality(engine.played_before) >= MaxEngineMoves

\* C15: with the dicts as any calls on any games have left them, every
\* call gives what it gives with both dicts empty: the same return value
\* or error, and the same game after it.
C15_CachesChangeNothing ==
    /\ \A vertex \in Vertices :
           to_vertex_tuple_memo(caches, vertex).out = to_vertex_tuple(vertex)
    /\ \A vertex_tuple \in Region :
           /\ get_neighbors_memo(caches, vertex_tuple).out
                  = get_neighbors(vertex_tuple)
           /\ count_liberties_of_memo(caches, board, vertex_tuple).out
                  = count_liberties_of(board, vertex_tuple)
    /\ \A move \in Moves :
           /\ is_legal_memo(caches, board, current_player, move).out
                  = is_legal(board, current_player, move)
           /\ play_memo(caches, board, movelist, current_player, move).out
                  = play(board, movelist, current_player, move)

\* play has accepted a placement on a game that is not the first one (it
\* was set up with stones), with the text played and the texts of the
\* stones in the conversion dict and three points, the played one among
\* them, in the neighbors dict.
C15_Witness ==
    /\ Accepted(last)
    /\ IsPlacement(last.move)
    /\ PointOf(last.move) \in DOMAIN caches.neighbors
    /\ Cardinality(DOMAIN caches.neighbors) >= 3
    /\ last.move.vertex \in DOMAIN caches.conversion
    /\ <<"b", "2">> \in DOMAIN caches.conversion
    /\ Cardinality(DOMAIN caches.conversion) >= 3
    /\ at(board, <<2, 2>>) # None

\* The number of times the point occurs in the sequence.
Occurrences(seq, p) == Cardinality({i \in 1..Len(seq) : seq[i] = p})

\* C16: the search of count_liberties_of comes to its end with the queue
\* empty; it expands no point twice and none that is empty or holds the
\* other color, and at its end it has expanded each stone of the group of
\* its start once, and counted what count_liberties_of returns.
C16_SearchExpandsGroupOnce ==
    /\ (search.pc = "loop") ~> (search.pc = "done" /\ search.queue = <<>>)
    /\ [](search.pc # "idle" =>
            /\ \A p \in Range(search.order) :
                   /\ Occurrences(search.order, p) = 1
                   /\ at(board, p) = search.color
            /\ Range(search.order) = search.expanded
            /\ search.expanded \subseteq Group(board, search.start))
    /\ [](search.pc = "done" =>
            /\ search.expanded = Group(board, search.start)
            /\ last.n = count_liberties_of(board, search.start).value)

\* A search has ended on a group of three stones next to a stone of the
\* other color; one of the three was enqueued three times.
C16_Witness ==
    /\ search.pc = "done"
    /\ search.queue = <<>>
    /\ Len(search.order) = 3
    /\ \E p \in Range(search.order) : Occurrences(search.enqueued, p) = 3
    /\ \E p \in Region :
           /\ at(board, p) \notin {None, search.color}
           /\ p \in UNION {NeighborSet(q) : q \in search.expanded}

\* The last call was is_not_suicide and it returned.
Probed == last.op = "is_not_suicide" /\ ~last.raised

\* C17: is_not_suicide returns True exactly when the count of liberties of
\* the group of the probing stone is not zero, and the count is zero
\* exactly when no empty point is next to the group, however many stones of
\* the group each empty point is next to.
C17_SuicideVerdictByLiberties ==
    Probed =>
        LET placed == Placed(board, last.move)
            liberty_count == count_liberties_of(placed, PointOf(last.move))
        IN  /\ ~liberty_count.raised
            /\ last.ok <=> liberty_count.value # 0
            /\ liberty_count.value = 0
                   <=> LibertyPoints(placed, PointOf(last.move)) = {}

\* is_not_suicide has returned True for a stone whose group has an empty
\* point next to it that two of its stones touch: the count is greater
\* than the number of empty points next to the group.
C17_Witness ==
    /\ Probed
    /\ last.ok
    /\ Cardinality(LibertyPoints(Placed(board, last.move),
                                 PointOf(last.move)))
           < count_liberties_of(Placed(board, last.move),
                                PointOf(last.move)).value

\* C18: no two stone placements of the move list name the same point: once
\* play has accepted a stone on a point, is_legal and play reject every
\* later move onto it.
C18_NoPointPlayedTwice ==
    \A i, j \in 1..Len(movelist) :
        (i < j /\ IsPlacement(movelist[i]) /\ IsPlacement(movelist[j])) =>
            PointOf(movelist[i]) # PointOf(movelist[j])

\* The last call was count_liberties_of and it returned.
Counted == last.op = "count_liberties_of" /\ ~last.raised

\* The empty points next to the one point.
OwnLiberties(b, c) == {p \in NeighborSet(c) : at(b, p) = None}

\* C19: count_liberties_of returns the same value for every stone of a
\* group: for every point that holds the color of the point of the call
\* and is connected to it through points of that color.
C19_GroupSharesCount ==
    Counted =>
        \A d \in Group(board, last.coord) :
            count_liberties_of(board, d) = Return(last.n)

\* count_liberties_of has returned for a stone of a group of three or more
\* stones, and the count is not the number of the stone's own liberties.
C19_Witness ==
    /\ Counted
    /\ Cardinality(Group(board, last.coord)) >= 3
    /\ last.n # Cardinality(OwnLiberties(board, last.coord))
    /\ \E d \in Group(board, last.coord) :
           Cardinality(OwnLiberties(board, d))
               # Cardinality(OwnLiberties(board, last.coord))

====
